---------------------------- MODULE Spec2Model ----------------------------
(***************************************************************************)
(* Model of the ride-reservation LINE bot (gggg-main/app.py, with the      *)
(* dialogue it shares with gayP-main/app.py).                              *)
(*                                                                         *)
(* A text is a sequence of characters.  Each character is written as a     *)
(* one-token string; a Chinese character is written by its pinyin:         *)
(*   cha xun wo de yu yue   = the query message                            *)
(*   wo xuan ze gong cheng  = "choose pooled",  wo bu gong cheng = "solo"  *)
(*   wo yu yue              = the reservation-time verb                    *)
(*   wo shi yong            = the payment verb                             *)
(*   dao                    = the route separator                          *)
(*   gong cheng             = mode pooled,  bu gong cheng = mode solo      *)
(***************************************************************************)
EXTENDS Integers, Sequences, FiniteSets, TLC

VARIABLES
    user_states,   \* the dict user_states: user_id -> draft (a dict of the fields set)
    records,       \* the rows of ride_records, in id order
    event,         \* the delivery handled last: <<user_id, text>>
    reply,         \* the reply it sent, NoReply when it sent none
    raised,        \* whether it raised (callback answers 400)
    chosen,        \* history: per user, the mode text that set the draft's ride_type
    lastQuery,     \* history: per user, the reply to the last query since the last insert
    th,            \* the handlers running concurrently
    args,          \* the inputs of a computation followed on its own
    result,        \* its value in a 1-tuple, the empty tuple before it is computed
    gayP           \* user_states and the rows of ride_records of gayP-main/app.py

vars == <<user_states, records, event, reply, raised, chosen, lastQuery, th, args, result, gayP>>

-----------------------------------------------------------------------------
(* Bounds of the model *)

MaxRecords == 2

\* the rows of the table in the specification of the matching
MaxRows == 3

-----------------------------------------------------------------------------
(* Python str operations, on sequences of characters *)

SP == " "

RECURSIVE LStrip(_)
LStrip(s) == IF s # <<>> /\ Head(s) = SP THEN LStrip(Tail(s)) ELSE s

RECURSIVE RStrip(_)
RStrip(s) == IF s # <<>> /\ s[Len(s)] = SP THEN RStrip(SubSeq(s, 1, Len(s) - 1)) ELSE s

Strip(s) == RStrip(LStrip(s))

StartsWith(s, p) == Len(p) <= Len(s) /\ SubSeq(s, 1, Len(p)) = p

Contains(sub, s) == \E i \in 1..(Len(s) - Len(sub) + 1) : SubSeq(s, i, i + Len(sub) - 1) = sub

\* s.split(sep): the parts of s between the occurrences of the character sep
RECURSIVE Split(_, _)
Split(s, sep) ==
    IF \A i \in 1..Len(s) : s[i] # sep THEN <<s>>
    ELSE LET i == CHOOSE k \in 1..Len(s) : s[k] = sep /\ \A j \in 1..(k - 1) : s[j] # sep
         IN  <<SubSeq(s, 1, i - 1)>> \o Split(SubSeq(s, i + 1, Len(s)), sep)

\* s.replace(sub, ""): every occurrence of sub removed, scanning left to right
RECURSIVE Remove(_, _)
Remove(s, sub) ==
    IF s = <<>> THEN <<>>
    ELSE IF StartsWith(s, sub) THEN Remove(SubSeq(s, Len(sub) + 1, Len(s)), sub)
    ELSE <<Head(s)>> \o Remove(Tail(s), sub)

Digit == [c \in {"0", "1", "2", "3", "4", "5", "6", "7", "8", "9"} |->
            CASE c = "0" -> 0 [] c = "1" -> 1 [] c = "2" -> 2 [] c = "3" -> 3 [] c = "4" -> 4
              [] c = "5" -> 5 [] c = "6" -> 6 [] c = "7" -> 7 [] c = "8" -> 8 [] c = "9" -> 9]

\* int(x) succeeds on a non-empty run of decimal digits
IsInt(x) == x # <<>> /\ \A i \in 1..Len(x) : x[i] \in DOMAIN Digit

RECURSIVE IntOf(_)
IntOf(x) == IF x = <<>> THEN 0 ELSE 10 * IntOf(SubSeq(x, 1, Len(x) - 1)) + Digit[x[Len(x)]]

RECURSIVE Pow60(_)
Pow60(i) == IF i = 0 THEN 1 ELSE 60 * Pow60(i - 1)

Abs(n) == IF n < 0 THEN -n ELSE n

-----------------------------------------------------------------------------
(* The literals of handle_message *)

QUERY == <<"cha", "xun", "wo", "de", "yu", "yue">>
DAO == "dao"
WO_YUYUE == <<"wo", "yu", "yue">>
WO_SHIYONG == <<"wo", "shi", "yong">>
CHOOSE_POOLED == <<"wo", "xuan", "ze", "gong", "cheng">>
CHOOSE_SOLO == <<"wo", "bu", "gong", "cheng">>
POOLED == <<"gong", "cheng">>
SOLO == <<"bu", "gong", "cheng">>

\* The absent value (of match_user_id, of a history entry)
None == "None"

\* What stands for the reply when the handler raised before sending one
NoReply == <<"none">>

-----------------------------------------------------------------------------
(* get_coordinates: the static table, in units of 0.0001 degree *)

TaipeiStation == <<"tai", "bei", "che", "zhan">>
SongshanAirport == <<"song", "shan", "ji", "chang">>
NTU == <<"tai", "da">>

get_coordinates(location) ==
    CASE location = TaipeiStation -> <<250478, 1215170>>
      [] location = SongshanAirport -> <<250634, 1215520>>
      [] location = NTU -> <<250169, 1215346>>
      [] OTHER -> <<0, 0>>

\* geodesic(a, b).km of geopy on the WGS-84 ellipsoid, in metres, for the
\* coordinates get_coordinates can return
geodesic(a, b) ==
    LET pair == {a, b} IN
    CASE a = b -> 0
      [] pair = {<<250478, 1215170>>, <<250634, 1215520>>} -> 3932
      [] pair = {<<250478, 1215170>>, <<250169, 1215346>>} -> 3856
      [] pair = {<<250634, 1215520>>, <<250169, 1215346>>} -> 5442
      [] pair = {<<250478, 1215170>>, <<0, 0>>} -> 13163479
      [] pair = {<<250634, 1215520>>, <<0, 0>>} -> 13166456
      [] pair = {<<250169, 1215346>>, <<0, 0>>} -> 13166066

-----------------------------------------------------------------------------
(* logistic_model: LogisticRegression().fit(X, y) on the four samples of    *)
(* train_logistic_regression (L2 penalty, C = 1, intercept not penalised).  *)
(* The fitted decision function is                                          *)
(*   0.3868 * distance_km - 0.2494 * time_diff + 0.5883 * payment_same      *)
(*   + 0.6336,                                                              *)
(* kept here in thousandths.                                                *)

CoefDistance == 387
CoefTimeDiff == -249
CoefPaymentSame == 588
Intercept == 634

\* logistic_model.predict(features)[0] == 1, with the distance in metres
\* (taken to 10 m, which keeps the products within 32 bits)
predict(distance, time_diff, payment_same) ==
    CoefDistance * (distance \div 10)
      + 100 * (CoefTimeDiff * time_diff + CoefPaymentSame * payment_same + Intercept) > 0

-----------------------------------------------------------------------------
(* The matching loop *)

\* every int(x) of  sum(int(x) * 60 ** i for i, x in enumerate(reversed(t.split(":"))))
\* succeeds
TimeParses(t) == \A i \in 1..Len(Split(t, ":")) : IsInt(Split(t, ":")[i])

RECURSIVE SumParts(_, _)
SumParts(parts, n) ==
    IF n = 0 THEN 0
    ELSE IntOf(parts[n]) * Pow60(Len(parts) - n) + SumParts(parts, n - 1)

TimeValue(t) == SumParts(Split(t, ":"), Len(Split(t, ":")))

\* time_diff = abs(user_time - match_time_value) // 60
TimeDiff(user_time, match_time_value) == Abs(user_time - match_time_value) \div 60

\* SELECT * FROM ride_records WHERE user_id = ?
SelectUser(recs, user_id) == SelectSeq(recs, LAMBDA r : r.user_id = user_id)

\* a plausible slip: the rows of every user are candidates
SelectPotentialMatches_AnyUser(recs, user_id) ==
    SelectSeq(recs, LAMBDA r : r.ride_type = POOLED)

\* SELECT * FROM ride_records WHERE user_id != ? AND ride_type = 'gong cheng'
SelectPotentialMatches(recs, user_id) ==
    SelectSeq(recs, LAMBDA r : r.user_id # user_id /\ r.ride_type = POOLED)

NoMatch == [error |-> FALSE, match_found |-> FALSE, match_user_id |-> None]

\* a plausible slip: every candidate is evaluated and the last positive one is kept
RECURSIVE MatchLoop_LastWins(_, _, _, _, _, _)
MatchLoop_LastWins(potential_matches, coords, i, user_time, user_origin_coords, payment) ==
    IF i > Len(potential_matches) THEN NoMatch
    ELSE LET match == potential_matches[i] IN
         IF ~TimeParses(match.time)
         THEN [error |-> TRUE, match_found |-> FALSE, match_user_id |-> None]
         ELSE LET distance == geodesic(user_origin_coords, coords[i])
                  time_diff == TimeDiff(user_time, TimeValue(match.time))
                  payment_same == IF payment = match.payment THEN 1 ELSE 0
                  rest == MatchLoop_LastWins(potential_matches, coords, i + 1, user_time,
                                             user_origin_coords, payment)
              IN  IF rest.error \/ rest.match_found \/ ~predict(distance, time_diff, payment_same)
                  THEN rest
                  ELSE [error |-> FALSE, match_found |-> TRUE, match_user_id |-> match.user_id]

\* for match in potential_matches: ... break on the first positive prediction;
\* a candidate whose time does not parse raises ValueError when it is reached.
\* coords[i] are the origin coordinates used for potential_matches[i].
RECURSIVE MatchLoop(_, _, _, _, _, _)
MatchLoop(potential_matches, coords, i, user_time, user_origin_coords, payment) ==
    IF i > Len(potential_matches) THEN NoMatch
    ELSE LET match == potential_matches[i] IN
         IF ~TimeParses(match.time)
         THEN [error |-> TRUE, match_found |-> FALSE, match_user_id |-> None]
         ELSE LET distance == geodesic(user_origin_coords, coords[i])
                  time_diff == TimeDiff(user_time, TimeValue(match.time))
                  payment_same == IF payment = match.payment THEN 1 ELSE 0
              IN  IF predict(distance, time_diff, payment_same)
                  THEN [error |-> FALSE, match_found |-> TRUE, match_user_id |-> match.user_id]
                  ELSE MatchLoop(potential_matches, coords, i + 1, user_time,
                                 user_origin_coords, payment)

\* The matching of the query branch: coordinates are looked up from the names
QueryMatch(recs, user_id, origin, time, payment) ==
    LET potential_matches == SelectPotentialMatches(recs, user_id)
        coords == [i \in 1..Len(potential_matches) |-> get_coordinates(potential_matches[i].origin)]
    IN  IF ~TimeParses(time)
        THEN [error |-> TRUE, match_found |-> FALSE, match_user_id |-> None]
        ELSE MatchLoop(potential_matches, coords, 1, TimeValue(time), get_coordinates(origin), payment)

\* The matching of the payment branch: coordinates are the stored ones
CompletionMatch(recs, user_id, data, payment) ==
    LET potential_matches == SelectPotentialMatches(recs, user_id)
        coords == [i \in 1..Len(potential_matches) |->
                     <<potential_matches[i].origin_lat, potential_matches[i].origin_lon>>]
    IN  IF ~TimeParses(data["time"])
        THEN [error |-> TRUE, match_found |-> FALSE, match_user_id |-> None]
        ELSE MatchLoop(potential_matches, coords, 1, TimeValue(data["time"]),
                       <<data["origin_lat"], data["origin_lon"]>>, payment)

-----------------------------------------------------------------------------
(* handle_message, one delivery handled from start to end.  Each branch     *)
(* gives the session store and the table after it, the reply sent (NoReply  *)
(* when none was) and whether the handler raised (callback answers 400).    *)

Result(us, recs, rep, exc) ==
    [us |-> us, recs |-> recs, reply |-> rep, raised |-> exc, match_user_id |-> None]

\* user_states = {}
NoDrafts == [u \in {} |-> {}]

\* user_states.pop(user_id, None)
Pop(us, user_id) == [u \in DOMAIN us \ {user_id} |-> us[u]]

\* user_states[user_id] = draft
Put(us, user_id, draft) == [u \in DOMAIN us \cup {user_id} |-> IF u = user_id THEN draft ELSE us[u]]

\* user_states[user_id][key] = value
SetKey(us, user_id, key, value) ==
    Put(us, user_id, [k \in DOMAIN us[user_id] \cup {key} |->
                        IF k = key THEN value ELSE us[user_id][k]])

\* a plausible slip: the id counts the rows of the user
Row_PerUserId(recs, user_id, data, payment) ==
    [id |-> Len(SelectUser(recs, user_id)) + 1, user_id |-> user_id, origin |-> data["origin"],
     destination |-> data["destination"], ride_type |-> data["ride_type"],
     time |-> data["time"], payment |-> payment,
     origin_lat |-> data["origin_lat"], origin_lon |-> data["origin_lon"],
     dest_lat |-> data["dest_lat"], dest_lon |-> data["dest_lon"]]

\* the row INSERT INTO ride_records adds, with its AUTOINCREMENT id
Row(recs, user_id, data, payment) ==
    [id |-> Len(recs) + 1, user_id |-> user_id, origin |-> data["origin"],
     destination |-> data["destination"], ride_type |-> data["ride_type"],
     time |-> data["time"], payment |-> payment,
     origin_lat |-> data["origin_lat"], origin_lon |-> data["origin_lon"],
     dest_lat |-> data["dest_lat"], dest_lon |-> data["dest_lon"]]

\* a plausible slip: answering the status ends the dialogue in progress
QueryBranch_ClearsDraft(user_id, us, recs) ==
    LET user_rides == SelectUser(recs, user_id) IN
    IF user_rides = <<>> THEN Result(us, recs, <<"no_records">>, FALSE)
    ELSE LET latest == user_rides[Len(user_rides)]
             m == QueryMatch(recs, user_id, latest.origin, latest.time, latest.payment)
         IN  IF m.error THEN Result(us, recs, NoReply, TRUE)
             ELSE Result(Pop(us, user_id), recs,
                         <<"status", latest.origin, latest.destination, latest.ride_type,
                           latest.time, latest.payment, m.match_found>>, FALSE)

\* a plausible slip: the status shows the time of the draft in progress
QueryBranch_ShowsDraft(user_id, us, recs) ==
    LET user_rides == SelectUser(recs, user_id) IN
    IF user_rides = <<>> THEN Result(us, recs, <<"no_records">>, FALSE)
    ELSE LET latest == user_rides[Len(user_rides)]
             time == IF user_id \in DOMAIN us /\ "time" \in DOMAIN us[user_id]
                     THEN us[user_id]["time"] ELSE latest.time
         IN  Result(us, recs,
                    <<"status", latest.origin, latest.destination, latest.ride_type,
                      time, latest.payment, FALSE>>, FALSE)

\* if user_input == QUERY: ...
QueryBranch(user_id, us, recs) ==
    LET user_rides == SelectUser(recs, user_id) IN
    IF user_rides = <<>> THEN Result(us, recs, <<"no_records">>, FALSE)
    ELSE LET latest == user_rides[Len(user_rides)]
             m == QueryMatch(recs, user_id, latest.origin, latest.time, latest.payment)
         IN  IF m.error THEN Result(us, recs, NoReply, TRUE)
             ELSE [Result(us, recs,
                          <<"status", latest.origin, latest.destination, latest.ride_type,
                            latest.time, latest.payment, m.match_found>>, FALSE)
                     EXCEPT !.match_user_id = m.match_user_id]

\* a plausible slip: the two parts are stored as they were split
RouteBranch_NoStrip(user_id, user_input, us, recs) ==
    LET parts == Split(user_input, DAO) IN
    IF Len(parts) # 2 THEN Result(us, recs, <<"route_format">>, FALSE)
    ELSE LET origin == parts[1]
             destination == parts[2]
             origin_coords == get_coordinates(origin)
             dest_coords == get_coordinates(destination)
         IN  Result(Put(us, user_id,
                        [origin |-> origin, destination |-> destination,
                         origin_lat |-> origin_coords[1], origin_lon |-> origin_coords[2],
                         dest_lat |-> dest_coords[1], dest_lon |-> dest_coords[2]]),
                    recs, <<"ask_mode", origin, destination>>, FALSE)

\* if DAO in user_input and WO_YUYUE not in user_input and WO_SHIYONG not in user_input: ...
RouteBranch(user_id, user_input, us, recs) ==
    LET parts == Split(user_input, DAO) IN
    IF Len(parts) # 2 THEN Result(us, recs, <<"route_format">>, FALSE)
    ELSE LET origin == Strip(parts[1])
             destination == Strip(parts[2])
             origin_coords == get_coordinates(origin)
             dest_coords == get_coordinates(destination)
         IN  Result(Put(us, user_id,
                        [origin |-> origin, destination |-> destination,
                         origin_lat |-> origin_coords[1], origin_lon |-> origin_coords[2],
                         dest_lat |-> dest_coords[1], dest_lon |-> dest_coords[2]]),
                    recs, <<"ask_mode", origin, destination>>, FALSE)

\* ride_type = POOLED if POOLED in user_input else SOLO
RideTypeOf(user_input) == IF Contains(POOLED, user_input) THEN POOLED ELSE SOLO

\* if user_input in [CHOOSE_POOLED, CHOOSE_SOLO]: ...
ModeBranch(user_id, user_input, us, recs) ==
    IF user_id \notin DOMAIN us THEN Result(us, recs, <<"route_first">>, FALSE)
    ELSE Result(SetKey(us, user_id, "ride_type", RideTypeOf(user_input)), recs,
                <<"ask_time">>, FALSE)

\* a plausible slip: the time step tests only that a draft exists
TimeBranch_NoModeCheck(user_id, user_input, us, recs) ==
    LET time == Strip(Remove(user_input, WO_YUYUE)) IN
    IF user_id \notin DOMAIN us
    THEN Result(us, recs, <<"mode_first">>, FALSE)
    ELSE Result(SetKey(us, user_id, "time", time), recs, <<"ask_payment", time>>, FALSE)

\* if user_input.startswith(WO_YUYUE): ...
TimeBranch(user_id, user_input, us, recs) ==
    LET time == Strip(Remove(user_input, WO_YUYUE)) IN
    IF user_id \notin DOMAIN us \/ "ride_type" \notin DOMAIN us[user_id]
    THEN Result(us, recs, <<"mode_first">>, FALSE)
    ELSE Result(SetKey(us, user_id, "time", time), recs, <<"ask_payment", time>>, FALSE)

\* lines 247-316: the draft is complete; insert it, match it, confirm, clear it
Completion(user_id, payment, us, recs) ==
    LET us1 == SetKey(us, user_id, "payment", payment)
        data == us1[user_id]
    IN  IF "ride_type" \notin DOMAIN data
        THEN Result(us1, recs, NoReply, TRUE)   \* KeyError building the INSERT
        ELSE LET recs1 == Append(recs, Row(recs, user_id, data, payment))
                 m == CompletionMatch(recs1, user_id, data, payment)
             IN  IF m.error THEN Result(us1, recs1, NoReply, TRUE)
                 ELSE Result(Pop(us1, user_id), recs1,
                             <<"done", data["origin"], data["destination"],
                               data["ride_type"], data["time"], payment, m.match_found>>,
                             FALSE)

\* a plausible slip: a payment out of order drops the draft
PaymentBranch_DropsDraft(user_id, user_input, us, recs) ==
    LET payment == Strip(Remove(user_input, WO_SHIYONG)) IN
    IF user_id \notin DOMAIN us \/ "time" \notin DOMAIN us[user_id]
    THEN Result(Pop(us, user_id), recs, <<"steps_first">>, FALSE)
    ELSE Completion(user_id, payment, us, recs)

\* if user_input.startswith(WO_SHIYONG): ...
PaymentBranch(user_id, user_input, us, recs) ==
    LET payment == Strip(Remove(user_input, WO_SHIYONG)) IN
    IF user_id \notin DOMAIN us \/ "time" \notin DOMAIN us[user_id]
    THEN Result(us, recs, <<"steps_first">>, FALSE)
    ELSE Completion(user_id, payment, us, recs)

\* the chain of tests of handle_message, first match first
Dispatch(user_input) ==
    IF user_input = QUERY THEN "query"
    ELSE IF Contains(<<DAO>>, user_input) /\ ~Contains(WO_YUYUE, user_input)
            /\ ~Contains(WO_SHIYONG, user_input) THEN "route"
    ELSE IF user_input \in {CHOOSE_POOLED, CHOOSE_SOLO} THEN "mode"
    ELSE IF StartsWith(user_input, WO_YUYUE) THEN "time"
    ELSE IF StartsWith(user_input, WO_SHIYONG) THEN "payment"
    ELSE "other"

handle_message(user_id, text, us, recs) ==
    LET user_input == Strip(text)
        branch == Dispatch(user_input)
    IN  CASE branch = "query" -> QueryBranch(user_id, us, recs)
          [] branch = "route" -> RouteBranch(user_id, user_input, us, recs)
          [] branch = "mode" -> ModeBranch(user_id, user_input, us, recs)
          [] branch = "time" -> TimeBranch(user_id, user_input, us, recs)
          [] branch = "payment" -> PaymentBranch(user_id, user_input, us, recs)
          [] OTHER -> Result(us, recs, <<"hint">>, FALSE)

-----------------------------------------------------------------------------
(* handle_message of gayP-main/app.py: the same chain of tests, a draft     *)
(* without coordinates, and a match that is a row of another user with mode *)
(* 'gong cheng' and the same origin and time.                               *)

gayP_Init == [user_states |-> NoDrafts, records |-> <<>>]

\* SELECT * FROM ride_records WHERE user_id != ? AND ride_type = 'gong cheng'
\*   AND origin = ? AND time = ?   ... fetchone() is not None
gayP_Match(recs, user_id, origin, time) ==
    \E i \in 1..Len(recs) :
        /\ recs[i].user_id # user_id /\ recs[i].ride_type = POOLED
        /\ recs[i].origin = origin /\ recs[i].time = time

gayP_Row(recs, user_id, data, payment) ==
    [id |-> Len(recs) + 1, user_id |-> user_id, origin |-> data["origin"],
     destination |-> data["destination"], ride_type |-> data["ride_type"],
     time |-> data["time"], payment |-> payment]

gayP_QueryBranch(user_id, us, recs) ==
    LET user_rides == SelectUser(recs, user_id) IN
    IF user_rides = <<>> THEN Result(us, recs, <<"no_records">>, FALSE)
    ELSE LET latest == user_rides[Len(user_rides)] IN
         Result(us, recs,
                <<"status", latest.origin, latest.destination, latest.ride_type,
                  latest.time, latest.payment,
                  gayP_Match(recs, user_id, latest.origin, latest.time)>>, FALSE)

gayP_RouteBranch(user_id, user_input, us, recs) ==
    LET parts == Split(user_input, DAO) IN
    IF Len(parts) # 2 THEN Result(us, recs, <<"route_format">>, FALSE)
    ELSE LET origin == Strip(parts[1])
             destination == Strip(parts[2])
         IN  Result(Put(us, user_id, [origin |-> origin, destination |-> destination]),
                    recs, <<"ask_mode", origin, destination>>, FALSE)

gayP_ModeBranch(user_id, user_input, us, recs) ==
    IF user_id \notin DOMAIN us THEN Result(us, recs, <<"route_first">>, FALSE)
    ELSE Result(SetKey(us, user_id, "ride_type", RideTypeOf(user_input)), recs,
                <<"ask_time">>, FALSE)

gayP_TimeBranch(user_id, user_input, us, recs) ==
    LET time == Strip(Remove(user_input, WO_YUYUE)) IN
    IF user_id \notin DOMAIN us \/ "ride_type" \notin DOMAIN us[user_id]
    THEN Result(us, recs, <<"mode_first">>, FALSE)
    ELSE Result(SetKey(us, user_id, "time", time), recs, <<"ask_payment", time>>, FALSE)

gayP_PaymentBranch(user_id, user_input, us, recs) ==
    LET payment == Strip(Remove(user_input, WO_SHIYONG)) IN
    IF user_id \notin DOMAIN us \/ "time" \notin DOMAIN us[user_id]
    THEN Result(us, recs, <<"steps_first">>, FALSE)
    ELSE LET us1 == SetKey(us, user_id, "payment", payment)
             data == us1[user_id]
         IN  IF "ride_type" \notin DOMAIN data
             THEN Result(us1, recs, NoReply, TRUE)   \* KeyError building the INSERT
             ELSE LET recs1 == Append(recs, gayP_Row(recs, user_id, data, payment)) IN
                  Result(Pop(us1, user_id), recs1,
                         <<"done", data["origin"], data["destination"], data["ride_type"],
                           data["time"], payment,
                           gayP_Match(recs1, user_id, data["origin"], data["time"])>>, FALSE)

gayP_handle_message(user_id, text, us, recs) ==
    LET user_input == Strip(text)
        branch == Dispatch(user_input)
    IN  CASE branch = "query" -> gayP_QueryBranch(user_id, us, recs)
          [] branch = "route" -> gayP_RouteBranch(user_id, user_input, us, recs)
          [] branch = "mode" -> gayP_ModeBranch(user_id, user_input, us, recs)
          [] branch = "time" -> gayP_TimeBranch(user_id, user_input, us, recs)
          [] branch = "payment" -> gayP_PaymentBranch(user_id, user_input, us, recs)
          [] OTHER -> Result(us, recs, <<"hint">>, FALSE)

-----------------------------------------------------------------------------
(* The deliveries of the model *)

Users == {"u1", "u2"}

Cash == <<"xian", "jin">>

RouteTexts == { TaipeiStation \o <<SP, DAO, SP>> \o SongshanAirport }
TwoSeparators == TaipeiStation \o <<DAO>> \o NTU \o <<DAO>> \o SongshanAirport
ModeTexts == {CHOOSE_POOLED, CHOOSE_SOLO}
TimeTexts ==
    { WO_YUYUE \o <<SP, "1", "5", ":", "3", "0">>,
      WO_YUYUE \o <<SP, "ming", "tian">> }
PaymentTexts == { WO_SHIYONG \o <<SP>> \o Cash }
Hello == <<"ni", "hao">>

Texts == {QUERY, TwoSeparators, Hello} \cup RouteTexts \cup ModeTexts \cup TimeTexts \cup PaymentTexts

-----------------------------------------------------------------------------
(* Deliveries handled one at a time *)

Threads == {"t1", "t2"}

Idle == [pc |-> "idle"]

\* no query answered since the last insert
NoQuery == [outcome |-> <<NoReply, FALSE, None>>, count |-> 0]

Init ==
    /\ user_states = NoDrafts
    /\ records = <<>>
    /\ event = None
    /\ reply = NoReply
    /\ raised = FALSE
    /\ chosen = [u \in Users |-> None]
    /\ lastQuery = [u \in Users |-> NoQuery]
    /\ th = [t \in Threads |-> Idle]
    /\ args = <<>>
    /\ result = <<>>
    /\ gayP = gayP_Init

BranchOf == [text \in Texts |-> Dispatch(Strip(text))]

\* the mode text behind the ride_type of user_id's draft after a delivery
ChosenAfter(user_id, text, branch, us) ==
    IF user_id \notin DOMAIN us \/ "ride_type" \notin DOMAIN us[user_id] THEN None
    ELSE IF branch = "mode" THEN Strip(text)
    ELSE chosen[user_id]

\* one delivery, handled to its end by the branch its text selects
Deliver(user_id, text, branch) ==
    LET r == handle_message(user_id, text, user_states, records) IN
    /\ BranchOf[text] = branch
    /\ Len(r.recs) <= MaxRecords
    /\ user_states' = r.us
    /\ records' = r.recs
    /\ event' = <<user_id, text>>
    /\ reply' = r.reply
    /\ raised' = r.raised
    /\ chosen' = [chosen EXCEPT ![user_id] = ChosenAfter(user_id, text, branch, r.us)]
    /\ UNCHANGED <<th, args, result>>

HandleQuery(user_id, text) == Deliver(user_id, text, "query")
HandleRoute(user_id, text) == Deliver(user_id, text, "route")
HandleMode(user_id, text) == Deliver(user_id, text, "mode")
HandleTime(user_id, text) == Deliver(user_id, text, "time")
HandlePayment(user_id, text) == Deliver(user_id, text, "payment")
HandleOther(user_id, text) == Deliver(user_id, text, "other")

Handle(user_id, text) ==
    \/ HandleQuery(user_id, text)
    \/ HandleRoute(user_id, text)
    \/ HandleMode(user_id, text)
    \/ HandleTime(user_id, text)
    \/ HandlePayment(user_id, text)
    \/ HandleOther(user_id, text)

Next == \E user_id \in Users, text \in Texts : Handle(user_id, text) /\ UNCHANGED <<lastQuery, gayP>>

Spec == Init /\ [][Next]_vars

-----------------------------------------------------------------------------
(* The same deliveries, with the history of the queries kept: per user, the *)
(* outcome of the last query (reply, raised, match_user_id) and how many    *)
(* queries were answered since the table last grew.                         *)

LastQueryAfter(user_id, text) ==
    LET r == handle_message(user_id, text, user_states, records) IN
    IF BranchOf[text] = "query"
    THEN [lastQuery EXCEPT ![user_id] =
            [outcome |-> <<r.reply, r.raised, r.match_user_id>>,
             count |-> IF lastQuery[user_id].count = 0 THEN 1 ELSE 2]]
    ELSE IF Len(r.recs) > Len(records) THEN [u \in Users |-> NoQuery]
    ELSE lastQuery

\* one text of every branch
QueryTexts == (Texts \ {TwoSeparators, CHOOSE_SOLO})

NextQ ==
    \E user_id \in Users, text \in QueryTexts :
        Handle(user_id, text) /\ lastQuery' = LastQueryAfter(user_id, text) /\ UNCHANGED gayP

SpecQ == Init /\ [][NextQ]_vars

-----------------------------------------------------------------------------
(* Deliveries handled concurrently.  The serving layer runs handle_message  *)
(* for each delivery in a thread of its own; user_states is a plain dict    *)
(* shared by the threads, with no lock.  A step is one statement that reads *)
(* or writes user_states or the table, with the local computation around    *)
(* it.  A thread whose pc is "raised" has left handle_message by an         *)
(* exception.                                                               *)

ConcUsers == {"u1"}
ConcTexts == Texts \ {TwoSeparators, Hello}

\* the threads that hold the dict of user_id's draft in their local `data`
HoldsData == {"p_insert", "p_match", "p_pop"}

\* user_states[user_id] is about to be replaced or removed: a thread whose
\* `data` refers to that dict keeps the dict as it is now
Detach(thr, user_id) ==
    [x \in Threads |->
        IF thr[x].pc \in HoldsData /\ thr[x].user_id = user_id /\ thr[x].live
        THEN [thr[x] EXCEPT !.live = FALSE, !.data = user_states[user_id]]
        ELSE thr[x]]

\* the dict the local `data` of thread t refers to
DataOf(t) == IF th[t].live THEN user_states[th[t].user_id] ELSE th[t].data

Raised == [pc |-> "raised"]

\* inserts that threads past the payment test are still to make
PendingInserts == Cardinality({t \in Threads : th[t].pc \in {"p_set", "p_data", "p_insert"}})

UnchangedSeq == UNCHANGED <<event, reply, raised, chosen, lastQuery, args, result, gayP>>

\* lines 162-193, whose one access to user_states is the assignment of line 174
CRoute(t, user_id, text) ==
    LET r == RouteBranch(user_id, Strip(text), user_states, records) IN
    /\ th[t].pc = "idle" /\ BranchOf[text] = "route"
    /\ user_states' = r.us
    /\ th' = IF r.us = user_states \/ user_id \notin DOMAIN user_states THEN th
             ELSE Detach(th, user_id)
    /\ UNCHANGED records /\ UnchangedSeq

\* lines 195-202
CModeCheck(t, user_id, text) ==
    /\ th[t].pc = "idle" /\ BranchOf[text] = "mode"
    /\ th' = IF user_id \notin DOMAIN user_states THEN th
             ELSE [th EXCEPT ![t] = [pc |-> "m_set", user_id |-> user_id, user_input |-> Strip(text)]]
    /\ UNCHANGED <<user_states, records>> /\ UnchangedSeq

\* line 204
CModeSet(t) ==
    /\ th[t].pc = "m_set"
    /\ IF th[t].user_id \in DOMAIN user_states
       THEN /\ user_states' = SetKey(user_states, th[t].user_id, "ride_type", RideTypeOf(th[t].user_input))
            /\ th' = [th EXCEPT ![t] = Idle]
       ELSE /\ th' = [th EXCEPT ![t] = Raised]   \* KeyError
            /\ UNCHANGED user_states
    /\ UNCHANGED records /\ UnchangedSeq

\* lines 214-221
CTimeCheck(t, user_id, text) ==
    /\ th[t].pc = "idle" /\ BranchOf[text] = "time"
    /\ th' = IF user_id \notin DOMAIN user_states \/ "ride_type" \notin DOMAIN user_states[user_id]
             THEN th
             ELSE [th EXCEPT ![t] = [pc |-> "t_set", user_id |-> user_id, user_input |-> Strip(text)]]
    /\ UNCHANGED <<user_states, records>> /\ UnchangedSeq

\* line 223
CTimeSet(t) ==
    /\ th[t].pc = "t_set"
    /\ IF th[t].user_id \in DOMAIN user_states
       THEN /\ user_states' = SetKey(user_states, th[t].user_id, "time",
                                     Strip(Remove(th[t].user_input, WO_YUYUE)))
            /\ th' = [th EXCEPT ![t] = Idle]
       ELSE /\ th' = [th EXCEPT ![t] = Raised]   \* KeyError
            /\ UNCHANGED user_states
    /\ UNCHANGED records /\ UnchangedSeq

\* lines 238-245
CPayCheck(t, user_id, text) ==
    /\ th[t].pc = "idle" /\ BranchOf[text] = "payment"
    /\ Len(records) + PendingInserts < MaxRecords
    /\ th' = IF user_id \notin DOMAIN user_states \/ "time" \notin DOMAIN user_states[user_id]
             THEN th
             ELSE [th EXCEPT ![t] = [pc |-> "p_set", user_id |-> user_id,
                                     payment |-> Strip(Remove(Strip(text), WO_SHIYONG))]]
    /\ UNCHANGED <<user_states, records>> /\ UnchangedSeq

\* line 247
CPaySet(t) ==
    /\ th[t].pc = "p_set"
    /\ IF th[t].user_id \in DOMAIN user_states
       THEN /\ user_states' = SetKey(user_states, th[t].user_id, "payment", th[t].payment)
            /\ th' = [th EXCEPT ![t].pc = "p_data"]
       ELSE /\ th' = [th EXCEPT ![t] = Raised]   \* KeyError
            /\ UNCHANGED user_states
    /\ UNCHANGED records /\ UnchangedSeq

\* line 248
CPayData(t) ==
    /\ th[t].pc = "p_data"
    /\ th' = IF th[t].user_id \in DOMAIN user_states
             THEN [th EXCEPT ![t] = [pc |-> "p_insert", user_id |-> th[t].user_id,
                                     payment |-> th[t].payment, live |-> TRUE,
                                     data |-> NoDrafts, match_found |-> FALSE]]
             ELSE [th EXCEPT ![t] = Raised]   \* KeyError
    /\ UNCHANGED <<user_states, records>> /\ UnchangedSeq

\* lines 250-267
CPayInsert(t) ==
    /\ th[t].pc = "p_insert"
    /\ IF {"ride_type", "time"} \subseteq DOMAIN DataOf(t)
       THEN /\ records' = Append(records, Row(records, th[t].user_id, DataOf(t), th[t].payment))
            /\ th' = [th EXCEPT ![t].pc = "p_match"]
       ELSE /\ th' = [th EXCEPT ![t] = Raised]   \* KeyError
            /\ UNCHANGED records
    /\ UNCHANGED user_states /\ UnchangedSeq

\* lines 269-294
CPayMatch(t) ==
    LET m == CompletionMatch(records, th[t].user_id, DataOf(t), th[t].payment) IN
    /\ th[t].pc = "p_match"
    /\ th' = IF m.error THEN [th EXCEPT ![t] = Raised]   \* ValueError
             ELSE [th EXCEPT ![t].pc = "p_pop", ![t].match_found = m.match_found]
    /\ UNCHANGED <<user_states, records>> /\ UnchangedSeq

\* lines 296-316
CPayPop(t) ==
    /\ th[t].pc = "p_pop"
    /\ user_states' = Pop(user_states, th[t].user_id)
    /\ th' = [(IF th[t].user_id \in DOMAIN user_states THEN Detach(th, th[t].user_id) ELSE th)
                EXCEPT ![t] = Idle]
    /\ UNCHANGED records /\ UnchangedSeq

\* lines 98-113
CQueryRides(t, user_id, text) ==
    LET user_rides == SelectUser(records, user_id) IN
    /\ th[t].pc = "idle" /\ BranchOf[text] = "query"
    /\ th' = IF user_rides = <<>> THEN th
             ELSE [th EXCEPT ![t] = [pc |-> "q_match", user_id |-> user_id,
                                     latest |-> user_rides[Len(user_rides)]]]
    /\ UNCHANGED <<user_states, records>> /\ UnchangedSeq

\* lines 115-160
CQueryMatch(t) ==
    LET latest == th[t].latest
        m == QueryMatch(records, th[t].user_id, latest.origin, latest.time, latest.payment)
    IN  /\ th[t].pc = "q_match"
        /\ th' = [th EXCEPT ![t] = IF m.error THEN Raised ELSE Idle]
        /\ UNCHANGED <<user_states, records>> /\ UnchangedSeq

\* callback, lines 87-91: the exception ends the request with status 400
CReturn(t) ==
    /\ th[t].pc = "raised"
    /\ th' = [th EXCEPT ![t] = Idle]
    /\ UNCHANGED <<user_states, records>> /\ UnchangedSeq

NextC ==
    \E t \in Threads :
        \/ \E user_id \in ConcUsers, text \in ConcTexts :
              \/ CRoute(t, user_id, text)
              \/ CModeCheck(t, user_id, text)
              \/ CTimeCheck(t, user_id, text)
              \/ CPayCheck(t, user_id, text)
              \/ CQueryRides(t, user_id, text)
        \/ CModeSet(t)
        \/ CTimeSet(t)
        \/ CPaySet(t)
        \/ CPayData(t)
        \/ CPayInsert(t)
        \/ CPayMatch(t)
        \/ CPayPop(t)
        \/ CQueryMatch(t)
        \/ CReturn(t)

SpecC == Init /\ [][NextC]_vars

-----------------------------------------------------------------------------
(* Route messages of many shapes: known and unknown places, with and        *)
(* without blanks around the text, the places and the separator.            *)

MarsBase == <<"M", "a", "r", "s", SP, "B", "a", "s", "e">>

Places == {TaipeiStation, NTU, MarsBase}

\* the blanks before the text, around the separator and after the text
Paddings == {<<<<>>, <<SP>>, <<SP>>, <<>>>>,
             <<<<>>, <<>>, <<>>, <<>>>>,
             <<<<SP, SP>>, <<SP, SP>>, <<>>, <<SP>>>>}

RouteText(A, B, pad) == pad[1] \o A \o pad[2] \o <<DAO>> \o pad[3] \o B \o pad[4]

RouteShapes == {RouteText(A, B, pad) : A \in Places, B \in Places, pad \in Paddings}

\* the texts that take a draft on to its completion
StepTexts == {CHOOSE_POOLED, WO_YUYUE \o <<SP, "1", "5", ":", "3", "0">>} \cup PaymentTexts

\* one delivery of a route message
DeliverRoute(user_id, text) ==
    LET r == handle_message(user_id, text, user_states, records) IN
    /\ user_states' = r.us
    /\ records' = r.recs
    /\ event' = <<user_id, text>>
    /\ reply' = r.reply
    /\ raised' = r.raised
    /\ chosen' = [chosen EXCEPT ![user_id] = ChosenAfter(user_id, text, "route", r.us)]
    /\ UNCHANGED <<lastQuery, th, args, result, gayP>>

\* the user whose route messages are followed
RouteUsers == {"u1"}

NextR ==
    \/ \E user_id \in RouteUsers, text \in RouteShapes : DeliverRoute(user_id, text)
    \/ \E user_id \in RouteUsers, text \in StepTexts :
          Handle(user_id, text) /\ UNCHANGED <<lastQuery, gayP>>

SpecR == Init /\ [][NextR]_vars

-----------------------------------------------------------------------------
(* The time-difference feature on its own: two times of day are drawn, and  *)
(* the feature is computed from them as the matching loop computes it.      *)

Hours == {<<"0", "0">>, <<"1", "5">>, <<"2", "3">>}
Minutes == {<<"0", "0">>, <<"1", "0">>, <<"3", "0">>, <<"5", "0">>}
Times == {h \o <<":">> \o m : h \in Hours, m \in Minutes}

InitT ==
    /\ user_states = NoDrafts
    /\ records = <<>>
    /\ event = None
    /\ reply = NoReply
    /\ raised = FALSE
    /\ chosen = [u \in Users |-> None]
    /\ lastQuery = [u \in Users |-> NoQuery]
    /\ th = [t \in Threads |-> Idle]
    /\ args \in Times \X Times
    /\ result = <<>>
    /\ gayP = gayP_Init

\* lines 127-137 (and 278-287): user_time, match_time_value, time_diff
ComputeTimeDiff ==
    /\ result = <<>>
    /\ result' = <<TimeDiff(TimeValue(args[1]), TimeValue(args[2]))>>
    /\ UNCHANGED <<user_states, records, event, reply, raised, chosen, lastQuery, th, args, gayP>>

NextT == ComputeTimeDiff

SpecT == InitT /\ [][NextT]_vars

-----------------------------------------------------------------------------
(* The matching on its own: the table holds rows of three users, inserted   *)
(* by earlier dialogues, and one user is about to complete a draft or asks  *)
(* for the status of the latest reservation.                                *)

MatchUsers == {"u1", "u2", "u3"}
Requester == "u1"

\* the times of the rows; the last is a time that does not parse, stored by
\* a completion that raised
RowTimes == {<<"1", "5", ":", "3", "0">>, <<"1", "1", ":", "3", "0">>, <<"ming", "tian">>}

\* the times of the draft: 15:30 is classified compatible with 15:30 and
\* with 11:30, 10:30 with 11:30 only
DraftTimes == {<<"1", "5", ":", "3", "0">>, <<"1", "0", ":", "3", "0">>}

\* the draft after a route, a mode and a time message
DraftWithTime(time) ==
    [origin |-> TaipeiStation, destination |-> SongshanAirport,
     origin_lat |-> get_coordinates(TaipeiStation)[1],
     origin_lon |-> get_coordinates(TaipeiStation)[2],
     dest_lat |-> get_coordinates(SongshanAirport)[1],
     dest_lon |-> get_coordinates(SongshanAirport)[2],
     ride_type |-> POOLED, time |-> time]

\* the tables of n rows those dialogues can leave
TablesOf(n) ==
    {[i \in 1..n |-> [Row(<<>>, f[i][1], DraftWithTime(f[i][2]), Cash) EXCEPT !.id = i]] :
        f \in [1..n -> MatchUsers \X RowTimes]}

InitM ==
    /\ records \in UNION {TablesOf(n) : n \in 0..MaxRows}
    /\ user_states \in {NoDrafts} \cup {Put(NoDrafts, Requester, DraftWithTime(t)) : t \in DraftTimes}
    /\ event = None
    /\ reply = NoReply
    /\ raised = FALSE
    /\ chosen = [u \in Users |-> None]
    /\ lastQuery = [u \in Users |-> NoQuery]
    /\ th = [t \in Threads |-> Idle]
    /\ args = <<>>
    /\ result = <<>>
    /\ gayP = gayP_Init

\* one delivery; match_user_id is kept when the handler computed it
DeliverMatch(user_id, text) ==
    LET r == handle_message(user_id, text, user_states, records) IN
    /\ Len(r.recs) <= MaxRows
    /\ user_states' = r.us
    /\ records' = r.recs
    /\ event' = <<user_id, text>>
    /\ reply' = r.reply
    /\ raised' = r.raised
    /\ result' = <<r.match_user_id>>
    /\ UNCHANGED <<chosen, lastQuery, th, args, gayP>>

MatchOnCompletion == \E text \in PaymentTexts : DeliverMatch(Requester, text)

MatchOnQuery == DeliverMatch(Requester, QUERY)

NextM == MatchOnCompletion \/ MatchOnQuery

SpecM == InitM /\ [][NextM]_vars

-----------------------------------------------------------------------------
(* The two programs side by side: every delivery is handled by both, each   *)
(* on its own session store and its own table.                              *)

gayP_After(user_id, text) ==
    LET r == gayP_handle_message(user_id, text, gayP.user_states, gayP.records) IN
    [user_states |-> r.us, records |-> r.recs]

NextE ==
    \E user_id \in Users, text \in Texts :
        Handle(user_id, text) /\ gayP' = gayP_After(user_id, text) /\ UNCHANGED lastQuery

SpecE == Init /\ [][NextE]_vars

-----------------------------------------------------------------------------
(* State functions used by the properties *)

HasKey(user_id, key) == user_id \in DOMAIN user_states /\ key \in DOMAIN user_states[user_id]

\* the mode a mode text asks for
ModeAsked(text) == IF text = CHOOSE_POOLED THEN POOLED ELSE SOLO

\* payment implies time implies mode implies route
FieldOrder(draft) ==
    /\ "payment" \in DOMAIN draft => "time" \in DOMAIN draft
    /\ "time" \in DOMAIN draft => "ride_type" \in DOMAIN draft
    /\ "ride_type" \in DOMAIN draft => {"origin", "destination"} \subseteq DOMAIN draft

CorrectivePrompts ==
    {<<"route_format">>, <<"route_first">>, <<"mode_first">>, <<"steps_first">>, <<"hint">>}

\* the match status carried by a status reply or a confirmation
MatchFound(rep) == rep[7]

Inserted == Len(records') = Len(records) + 1

-----------------------------------------------------------------------------
(* C1: with a draft, "choose pooled" stores mode POOLED and "choose solo"   *)
(* stores mode SOLO: the mode of every draft is the one its mode text asked *)
(* for.                                                                     *)
C1_ModeIsTheOneChosen ==
    \A u \in Users :
        HasKey(u, "ride_type") => user_states[u]["ride_type"] = ModeAsked(chosen[u])

(* C2: a delivery answered with a corrective prompt leaves every draft and  *)
(* the stored records as they were.                                         *)
C2_CorrectivePromptKeepsState ==
    [][reply' \in CorrectivePrompts => user_states' = user_states /\ records' = records]_vars

C2_Witness ==
    /\ reply = <<"steps_first">>
    /\ HasKey(event[1], "ride_type")
    /\ records # <<>>

(* C3: in every draft, payment set implies time set, time set implies mode  *)
(* set, and mode set implies origin and destination set.                    *)
C3_FieldOrder == \A u \in DOMAIN user_states : FieldOrder(user_states[u])

C3_Witness == \E u \in Users : HasKey(u, "time") /\ ~HasKey(u, "payment")

(* C4: the payment message that completes a draft inserts exactly one       *)
(* record, carrying the origin, destination and time of the draft, the mode *)
(* that was chosen and the payment given, and leaves the user without a     *)
(* draft.                                                                   *)
C4_RoundTrip ==
    [][\A u \in Users :
         (event' # event /\ event'[1] = u /\ BranchOf[event'[2]] = "payment" /\ HasKey(u, "time"))
         => /\ Inserted
            /\ SubSeq(records', 1, Len(records)) = records
            /\ LET row == records'[Len(records')] IN
               /\ row.user_id = u
               /\ row.origin = user_states[u]["origin"]
               /\ row.destination = user_states[u]["destination"]
               /\ row.ride_type = ModeAsked(chosen[u])
               /\ row.time = user_states[u]["time"]
               /\ row.payment = Strip(Remove(Strip(event'[2]), WO_SHIYONG))
            /\ u \notin DOMAIN user_states']_vars

(* C5: no draft with its payment field set stays in the session store once  *)
(* the handler has finished.                                                *)
C5_CompleteDraftIsConsumed == \A u \in Users : ~HasKey(u, "payment")

(* C6: a payment delivery never raises: a failure of the matching step      *)
(* counts as no match and the confirmation is still sent.                   *)
C6_CompletionNeverRaises ==
    (event # None /\ BranchOf[event[2]] = "payment")
        => (~raised /\ reply # NoReply /\ reply[1] \in {"done", "steps_first"})

(* C7: the completion of a reservation whose user chose solo reports no     *)
(* match.                                                                   *)
C7_SoloIsNeverMatched ==
    [][\A u \in Users :
         (event'[1] = u /\ Inserted /\ chosen[u] = CHOOSE_SOLO /\ reply' # NoReply)
         => ~MatchFound(reply')]_vars

(* C8: a query delivery leaves every draft and the stored records as they   *)
(* were.                                                                    *)
C8_QueryIsReadOnly ==
    [][BranchOf[event'[2]] = "query" => user_states' = user_states /\ records' = records]_vars

C8_Witness ==
    /\ event # None
    /\ BranchOf[event[2]] = "query"
    /\ reply # NoReply /\ reply[1] = "status"
    /\ HasKey(event[1], "time")

(* C9: two queries of one user with no insert in between have the same     *)
(* outcome: the same reply, match status and matched candidate.             *)
C9_RepeatedQuerySameOutcome ==
    [][\A u \in Users :
         (lastQuery[u].count > 0 /\ lastQuery'[u].count > 0)
         => lastQuery'[u].outcome = lastQuery[u].outcome]_vars

C9_Witness ==
    \E u \in Users :
        /\ lastQuery[u].count = 2
        /\ event = <<u, QUERY>>
        /\ lastQuery[u].outcome[1][1] = "status"
        /\ MatchFound(lastQuery[u].outcome[1])
        /\ lastQuery[u].outcome[3] # None
        /\ HasKey(u, "time")

(* C10: while deliveries of one user are handled concurrently, the draft   *)
(* keeps the field order (payment implies time implies mode implies route)  *)
(* in every intermediate state.                                             *)
C10_FieldOrderUnderConcurrency ==
    \A u \in ConcUsers : u \in DOMAIN user_states => FieldOrder(user_states[u])

\* a handler has left handle_message by an exception
SomeHandlerRaised == \E t \in Threads : th[t].pc = "raised"

\* two handlers have both inserted the dict that is user_id's draft now
InsertedTwice(user_id) ==
    \E t1, t2 \in Threads :
        /\ t1 # t2
        /\ th[t1].pc \in {"p_match", "p_pop"} /\ th[t2].pc \in {"p_match", "p_pop"}
        /\ th[t1].user_id = user_id /\ th[t2].user_id = user_id
        /\ th[t1].live /\ th[t2].live

(* C11: under every interleaving of concurrently handled deliveries no      *)
(* handler raises an unhandled error and no draft is inserted more than     *)
(* once: two payment messages handled concurrently for one draft insert at  *)
(* most one record.                                                         *)
C11_NoRaiseNoDuplicateInsert ==
    /\ ~SomeHandlerRaised
    /\ \A u \in ConcUsers : ~InsertedTwice(u)

\* the second half of C11 alone
C11_NoDuplicateInsert == \A u \in ConcUsers : ~InsertedTwice(u)

\* the coordinates the static table gives a place, (0, 0) outside the table
TableCoordinates(place) ==
    IF place = TaipeiStation THEN <<250478, 1215170>>
    ELSE IF place = NTU THEN <<250169, 1215346>>
    ELSE <<0, 0>>

(* C12: a route message "A dao B" from a user with no draft leaves a draft  *)
(* holding exactly origin = A and destination = B, trimmed, with the        *)
(* coordinates the table gives A and B, (0, 0) for a place outside it, and  *)
(* no mode, time or payment; the message is answered by the mode question   *)
(* whether or not the places are known.                                     *)
C12_RouteCreatesDraft ==
    [][\A u \in RouteUsers, A \in Places, B \in Places, pad \in Paddings :
         (event' = <<u, RouteText(A, B, pad)>> /\ u \notin DOMAIN user_states)
         => /\ ~raised'
            /\ reply' = <<"ask_mode", A, B>>
            /\ u \in DOMAIN user_states'
            /\ user_states'[u] =
                 [origin |-> A, destination |-> B,
                  origin_lat |-> TableCoordinates(A)[1], origin_lon |-> TableCoordinates(A)[2],
                  dest_lat |-> TableCoordinates(B)[1], dest_lon |-> TableCoordinates(B)[2]]
            /\ records' = records]_vars

C12_Witness ==
    /\ event # None /\ event[2] = RouteText(MarsBase, NTU, <<<<SP, SP>>, <<SP, SP>>, <<>>, <<SP>>>>)
    /\ HasKey(event[1], "origin")
    /\ user_states[event[1]]["origin_lat"] = 0
    /\ user_states[event[1]]["dest_lat"] = 250169
    /\ ~HasKey(event[1], "ride_type")
    /\ records # <<>>

\* the state of user_id's session: 0 START (no draft), 1 HAVE_ROUTE,
\* 2 HAVE_MODE, 3 HAVE_TIME, 4 payment set
Stage(us, user_id) ==
    IF user_id \notin DOMAIN us THEN 0
    ELSE IF "payment" \in DOMAIN us[user_id] THEN 4
    ELSE IF "time" \in DOMAIN us[user_id] THEN 3
    ELSE IF "ride_type" \in DOMAIN us[user_id] THEN 2
    ELSE 1

(* C13: a session only moves forward: a delivery received while a draft is  *)
(* in progress leaves the session in the same or a later state with every   *)
(* field already set still set, the reset to START by a payment message     *)
(* being the only step back.                                                *)
C13_SessionMovesForward ==
    [][\A u \in Users :
         Stage(user_states, u) \in {1, 2, 3}
         => \/ /\ Stage(user_states', u) >= Stage(user_states, u)
               /\ DOMAIN user_states[u] \subseteq DOMAIN user_states'[u]
            \/ /\ Stage(user_states', u) = 0
               /\ BranchOf[event'[2]] = "payment"]_vars

\* the minutes since midnight of a time of day hh:mm
MinutesSinceMidnight(t) == 60 * IntOf(SubSeq(t, 1, 2)) + IntOf(SubSeq(t, 4, 5))

(* C14: the time-difference feature of two times h1:m1 and h2:m2 is the     *)
(* absolute difference in minutes |(60*h1 + m1) - (60*h2 + m2)|, with no    *)
(* day wraparound: 30 for 15:30 against 15:00, 1420 for 23:50 against       *)
(* 00:10.                                                                   *)
C14_TimeDiffInMinutes ==
    result # <<>>
    => result[1] = Abs(MinutesSinceMidnight(args[1]) - MinutesSinceMidnight(args[2]))

\* the rows that can be matched with a reservation of user_id
Others(user_id) ==
    {i \in 1..Len(records) : records[i].user_id # user_id /\ records[i].ride_type = POOLED}

\* the reservation of user_id a match is sought for: the row with the highest id
LatestOf(user_id) ==
    records[CHOOSE i \in 1..Len(records) :
                /\ records[i].user_id = user_id
                /\ \A j \in (i + 1)..Len(records) : records[j].user_id # user_id]

\* the classifier is positive for the reservation req and the row
Positive(req, row) ==
    /\ TimeParses(req.time) /\ TimeParses(row.time)
    /\ predict(geodesic(<<req.origin_lat, req.origin_lon>>, <<row.origin_lat, row.origin_lon>>),
               TimeDiff(TimeValue(req.time), TimeValue(row.time)),
               IF req.payment = row.payment THEN 1 ELSE 0)

\* the delivery handled last was answered with a match status
StatusReported == event # None /\ reply[1] \in {"done", "status"}

(* C15: when a match is reported, at completion or on query, some stored    *)
(* row of another user with mode POOLED is classified compatible; with no   *)
(* such row the result is no match, and the user matched is never the       *)
(* requesting user.                                                         *)
C15_MatchIsAnotherUsersPooledRow ==
    StatusReported
    => LET u == event[1]
           req == LatestOf(u)
       IN  /\ MatchFound(reply) <=> \E i \in Others(u) : Positive(req, records[i])
           /\ result[1] # u
           /\ result[1] # None
                => \E i \in Others(u) : records[i].user_id = result[1] /\ Positive(req, records[i])

C15_Witness ==
    /\ StatusReported
    /\ reply[1] = "done" /\ ~MatchFound(reply)
    /\ Others(event[1]) # {}
    /\ \E i \in 1..(Len(records) - 1) :
          records[i].user_id = event[1] /\ Positive(LatestOf(event[1]), records[i])

(* C16: the first candidate in the order of the ids that is classified      *)
(* compatible is the match: when the candidates before it are classified    *)
(* negative, the match is reported with that candidate's user, whatever the *)
(* candidates after it are (closer in time, or with a time that cannot be   *)
(* evaluated).                                                              *)
C16_FirstPositiveWins ==
    (event # None /\ (raised \/ reply[1] \in {"done", "status"}))
    => LET u == event[1]
           req == LatestOf(u)
       IN  \A k \in Others(u) :
              (/\ Positive(req, records[k])
               /\ \A i \in Others(u) :
                     i < k => TimeParses(records[i].time) /\ ~Positive(req, records[i]))
              => /\ ~raised
                 /\ MatchFound(reply)
                 /\ reply[1] = "status" => result[1] = records[k].user_id

C16_Witness ==
    /\ StatusReported /\ reply[1] = "status" /\ MatchFound(reply)
    /\ \E k, j \in Others(event[1]) :
          /\ k < j
          /\ result[1] = records[k].user_id
          /\ records[j].user_id # records[k].user_id
          /\ Positive(LatestOf(event[1]), records[j])
          /\ TimeDiff(TimeValue(LatestOf(event[1]).time), TimeValue(records[j].time))
               < TimeDiff(TimeValue(LatestOf(event[1]).time), TimeValue(records[k].time))

\* a 24-hour time of day HH:MM
WellFormedTime(t) ==
    /\ Len(t) = 5 /\ t[3] = ":"
    /\ IsInt(SubSeq(t, 1, 2)) /\ IsInt(SubSeq(t, 4, 5))
    /\ IntOf(SubSeq(t, 1, 2)) <= 23 /\ IntOf(SubSeq(t, 4, 5)) <= 59

(* C17: the time of every draft and of every stored record is a well-formed *)
(* 24-hour HH:MM value: a reservation-time message whose remainder is not   *)
(* HH:MM is not stored as the draft's time.                                 *)
C17_TimesAreWellFormed ==
    /\ \A u \in Users : HasKey(u, "time") => WellFormedTime(user_states[u]["time"])
    /\ \A i \in 1..Len(records) : WellFormedTime(records[i].time)

(* C18: the table is append-only: a delivery leaves the stored rows as they *)
(* were and adds at most one, only the payment step adds one, and the ids   *)
(* are strictly increasing.                                                 *)
C18_AppendOnly ==
    [][/\ Len(records') >= Len(records)
       /\ SubSeq(records', 1, Len(records)) = records
       /\ records' # records
            => /\ Len(records') = Len(records) + 1
               /\ BranchOf[event'[2]] = "payment"
               /\ records'[Len(records')].user_id = event'[1]
       /\ \A i, j \in 1..Len(records') : i < j => records'[i].id < records'[j].id]_vars

C18_Witness ==
    /\ Len(records) = 2
    /\ records[1].user_id # records[2].user_id
    /\ event # None /\ BranchOf[event[2]] = "payment"
    /\ records[2].user_id = event[1]
    /\ reply[1] = "done"

\* the draft of user_id in a 1-tuple, the empty tuple when there is none
DraftOf(us, user_id) == IF user_id \in DOMAIN us THEN <<us[user_id]>> ELSE <<>>

(* C19: sessions are isolated: a delivery of one user leaves the draft of   *)
(* every other user as it was, and leaves the sender with the draft that    *)
(* the same delivery gives when only the sender's own messages were ever    *)
(* handled (the table holding the sender's rows only).                      *)
C19_SessionsAreIsolated ==
    [][\A u \in Users :
         /\ event'[1] # u => DraftOf(user_states', u) = DraftOf(user_states, u)
         /\ event'[1] = u
              => DraftOf(user_states', u)
                   = DraftOf(handle_message(u, event'[2], user_states,
                                            SelectUser(records, u)).us, u)]_vars

\* the first half of C19 alone
C19_OtherDraftsUntouched ==
    [][\A u \in Users : event'[1] # u => DraftOf(user_states', u) = DraftOf(user_states, u)]_vars

\* a draft or a row without its coordinate fields
WithoutCoordinates(d) ==
    [k \in DOMAIN d \ {"origin_lat", "origin_lon", "dest_lat", "dest_lon"} |-> d[k]]

(* C20: the two programs are the same dialogue: after every sequence of     *)
(* deliveries handled one at a time they hold the same drafts, the          *)
(* coordinates aside, and the same rows with the same user, origin,         *)
(* destination, mode, time and payment.                                     *)
C20_SameDialogue ==
    /\ DOMAIN gayP.user_states = DOMAIN user_states
    /\ \A u \in DOMAIN user_states : gayP.user_states[u] = WithoutCoordinates(user_states[u])
    /\ Len(gayP.records) = Len(records)
    /\ \A i \in 1..Len(records) : gayP.records[i] = WithoutCoordinates(records[i])

=============================================================================
